---- MODULE Spec2Model ----
(***************************************************************************)
(* The instatus "component" resource (instatus/component_resource.go): the *)
(* Terraform state of one component, the handlers Create, Read, Update,    *)
(* Delete and ImportState, and the remote status-page service they call.   *)
(*                                                                         *)
(* A framework value (types.String, types.Int64, types.Bool) is            *)
(* <<"null">>, <<"unknown">> or <<"known", v>>.  A Go pointer is <<>>      *)
(* (nil) or <<v>>.  A string built by concatenation is kept as the tuple   *)
(* of its parts.                                                           *)
(***************************************************************************)
EXTENDS Integers, Sequences, FiniteSets, TLC

VARIABLES state, remote, now, last, written

vars == <<state, remote, now, last, written>>

(* ------------------------------ bounds -------------------------------- *)

\* The wall clock runs over the seconds 0..MaxClock.
MaxClock == 1

\* Configured display orders are 1..MaxOrder.
MaxOrder == 1

(* ------------------------- framework values --------------------------- *)

Nil == <<>>

Null == <<"null">>

Unknown == <<"unknown">>

Known(v) == <<"known", v>>

IsNull(t) == t[1] = "null"

StringValue(s) == Known(s)

BoolValue(b) == Known(b)

\* The known string, "" for a null or unknown value.
ValueString(t) == IF t[1] = "known" THEN t[2] ELSE ""

\* nil for null, else a pointer to the value ("" for unknown).
ValueStringPointer(t) == IF IsNull(t) THEN Nil ELSE <<ValueString(t)>>

\* nil for null, else a pointer to the value (0 for unknown).
ValueInt64Pointer(t) == IF IsNull(t) THEN Nil ELSE <<IF t[1] = "known" THEN t[2] ELSE 0>>

\* nil for null, else a pointer to the value (false for unknown).
ValueBoolPointer(t) == IF IsNull(t) THEN Nil ELSE <<IF t[1] = "known" THEN t[2] ELSE FALSE>>

StringPointerValue(p) == IF p = Nil THEN Null ELSE Known(p[1])

Int64PointerValue(p) == IF p = Nil THEN Null ELSE Known(p[1])

BoolPointerValue(p) == IF p = Nil THEN Null ELSE Known(p[1])

(* ------------------------------ schema -------------------------------- *)

componentStatuses == {"OPERATIONAL", "UNDERMAINTENANCE", "DEGRADEDPERFORMANCE", "PARTIALOUTAGE", "MAJOROUTAGE"}

\* The attributes of componentResourceModel.
Attributes == {"id", "unique_email", "name", "page_id", "description", "status", "order", "group_id", "show_uptime", "grouped", "group", "last_updated"}

\* Every configuration the schema accepts, over the bounded value sets.
ValidConfigs == [page_id : {Known("p1"), Known("p2")}, name : {Known("api"), Known("web")}, description : {Null, Known("desc")}, status : {Null} \cup {Known(s) : s \in componentStatuses}, order : {Null} \cup {Known(n) : n \in 1..MaxOrder}, show_uptime : {Null, Known(TRUE)}, grouped : {Null, Known(TRUE)}, group : {Null, Known("core")}]

\* An ungrouped component with only the required attributes set.
BaseConfig == [page_id |-> Known("p1"), name |-> Known("api"), description |-> Null, status |-> Null, order |-> Null, show_uptime |-> Null, grouped |-> Null, group |-> Null]

\* The same component put in a group.
GroupedConfig == [BaseConfig EXCEPT !.grouped = Known(TRUE), !.group = Known("core")]

Distance(c, d) == Cardinality({a \in DOMAIN c : c[a] # d[a]})

\* The configurations handed to the handlers: the base, the base with one
\* attribute set otherwise, and the grouped component.
Configs == {c \in ValidConfigs : Distance(BaseConfig, c) <= 1} \cup {GroupedConfig}

\* The "id" attribute without its plan modifier: unknown in every plan.
NoPlanModifier(stateValue) == Unknown

\* stringplanmodifier.UseStateForUnknown on "id": the prior state's value
\* unless that is null, and unknown otherwise.
UseStateForUnknown(stateValue) == IF IsNull(stateValue) THEN Unknown ELSE stateValue

\* booldefault.StaticBool(false) on "grouped".
GroupedDefault(configValue) == IF IsNull(configValue) THEN Known(FALSE) ELSE configValue

\* An Optional and Computed attribute without a default is unknown in the plan
\* when the configuration leaves it out.
OptionalComputed(configValue) == IF IsNull(configValue) THEN Unknown ELSE configValue

\* The plan the framework hands to Create (priorId = Unknown) or to Update.
PlanOf(cfg, priorId) == [id |-> priorId, unique_email |-> Unknown, last_updated |-> Unknown, page_id |-> cfg.page_id, name |-> cfg.name, description |-> cfg.description, status |-> cfg.status, order |-> OptionalComputed(cfg.order), group_id |-> Unknown, show_uptime |-> cfg.show_uptime, grouped |-> GroupedDefault(cfg.grouped), group |-> cfg.group]

(* ------------------------- the remote service -------------------------- *)

\* Identifiers the service assigns.
ServiceIds == {"c1", "c2"}

\* Messages of the errors the client returns.
ServiceErrors == {"500 Internal Server Error"}

\* The component the service holds after a write of item under id, when it
\* stores the request as it is: identifier, e-mail and group identifier are its own.
Echo(item, id) ==
    [id |-> <<id>>,
     unique_email |-> <<"mail">>,
     name |-> item.name,
     description |-> item.description,
     status |-> item.status,
     order |-> item.order,
     group_id |-> IF item.group = Nil THEN Nil ELSE <<"grp-1">>,
     show_uptime |-> item.show_uptime,
     group |-> item.group]

\* Values the service may put in a field on its own account.
ServiceValues ==
    [id |-> {<<i>> : i \in ServiceIds},
     name |-> {<<"renamed">>},
     status |-> {<<"RETIRED">>},
     order |-> {<<MaxOrder + 1>>},
     show_uptime |-> {<<FALSE>>},
     group |-> {Nil, <<"other">>}]

\* The replies the service may give while it holds c: c itself, and c with
\* one field replaced by a value of the service's.
Replies(c) == {c} \cup UNION {{[c EXCEPT ![f] = v] : v \in ServiceValues[f]} : f \in DOMAIN ServiceValues}

Ok(c) == [err |-> Nil, component |-> <<c>>]

Fail(m) == [err |-> <<m>>, component |-> Nil]

Failures == {Fail(m) : m \in ServiceErrors}

\* Whether the service holds a component under id (held is <<>> or <<c>>).
Holds(held, id) == held # Nil /\ held[1].id = <<id>>

\* What CreateComponent may return for item.
CreateOutcomes(item) == Failures \cup {Ok(c) : c \in UNION {Replies(Echo(item, id)) : id \in ServiceIds}}

\* What GetComponent may return for id.
GetOutcomes(held, id) == Failures \cup (IF Holds(held, id) THEN {Ok(c) : c \in Replies(held[1])} ELSE {})

\* What UpdateComponent may return for item sent under id.
UpdateOutcomes(held, item, id) == Failures \cup (IF Holds(held, id) THEN {Ok(c) : c \in Replies(Echo(item, id))} ELSE {})

\* What DeleteComponent may return for id.
DeleteOutcomes(held, id) == Failures \cup (IF Holds(held, id) THEN {[err |-> Nil, component |-> Nil]} ELSE {})

\* A component that exists on the page before Terraform manages anything.
Existing ==
    [id |-> <<"c1">>,
     unique_email |-> <<"mail">>,
     name |-> <<"web">>,
     description |-> Nil,
     status |-> <<"OPERATIONAL">>,
     order |-> <<MaxOrder>>,
     group_id |-> <<"grp-1">>,
     show_uptime |-> <<TRUE>>,
     group |-> <<"core">>]

(* ------------------------------ handlers ------------------------------- *)

NoState == <<>>

\* time.Now().Format(time.RFC850): the text of the second t.
Format(t) == <<"RFC850", t>>

ErrorDiag(summary, detail) == [severity |-> "error", summary |-> summary, detail |-> detail]

WarningDiag(summary, detail) == [severity |-> "warning", summary |-> summary, detail |-> detail]

HasError(diags) == \E i \in 1..Len(diags) : diags[i].severity = "error"

\* The request body Create builds from the plan.
CreateItem(plan) ==
    [name |-> ValueStringPointer(plan.name),
     description |-> ValueStringPointer(plan.description),
     status |-> ValueStringPointer(plan.status),
     order |-> ValueInt64Pointer(plan.order),
     show_uptime |-> ValueBoolPointer(plan.show_uptime),
     grouped |-> ValueBoolPointer(plan.grouped),
     group |-> ValueStringPointer(plan.group)]

\* The call Create makes.
CreateCall(plan) == [fn |-> "CreateComponent", args |-> <<ValueString(plan.page_id)>>, item |-> <<CreateItem(plan)>>]

\* CreateState with the status taken from the returned component as well.
CreateStateCopiesStatus(plan, component, t) ==
    [plan EXCEPT
        !.id = StringPointerValue(component.id),
        !.unique_email = StringPointerValue(component.unique_email),
        !.status = StringPointerValue(component.status),
        !.order = Int64PointerValue(component.order),
        !.group_id = StringPointerValue(component.group_id),
        !.group = StringPointerValue(component.group),
        !.last_updated = StringValue(Format(t))]

\* The state Create writes once the service has returned component.
CreateState(plan, component, t) ==
    [plan EXCEPT
        !.id = StringPointerValue(component.id),
        !.unique_email = StringPointerValue(component.unique_email),
        !.order = Int64PointerValue(component.order),
        !.group_id = StringPointerValue(component.group_id),
        !.group = StringPointerValue(component.group),
        !.last_updated = StringValue(Format(t))]

\* Create on plan, the call returning out at time t; prior is the state before.
CreateHandler(prior, plan, out, t) ==
    IF out.err # Nil
    THEN [state |-> prior,
          calls |-> <<CreateCall(plan)>>,
          diags |-> <<ErrorDiag("Error creating component", <<"Could not create component, unexpected error: ", out.err[1]>>)>>]
    ELSE [state |-> <<CreateState(plan, out.component[1], t)>>,
          calls |-> <<CreateCall(plan)>>,
          diags |-> <<>>]

\* The call Read makes.
ReadCall(st) == [fn |-> "GetComponent", args |-> <<ValueString(st.page_id), ValueString(st.id)>>, item |-> Nil]

\* ReadState without the line that recomputes grouped.
ReadStateKeepsGrouped(st, component) ==
    [st EXCEPT
        !.unique_email = StringPointerValue(component.unique_email),
        !.name = StringPointerValue(component.name),
        !.description = StringPointerValue(component.description),
        !.status = StringPointerValue(component.status),
        !.order = Int64PointerValue(component.order),
        !.group_id = StringPointerValue(component.group_id),
        !.show_uptime = BoolPointerValue(component.show_uptime),
        !.group = StringPointerValue(component.group)]

\* The state Read writes once the service has returned component.
ReadState(st, component) ==
    [st EXCEPT
        !.unique_email = StringPointerValue(component.unique_email),
        !.name = StringPointerValue(component.name),
        !.description = StringPointerValue(component.description),
        !.status = StringPointerValue(component.status),
        !.order = Int64PointerValue(component.order),
        !.group_id = StringPointerValue(component.group_id),
        !.show_uptime = BoolPointerValue(component.show_uptime),
        !.grouped = BoolValue(component.group # Nil),
        !.group = StringPointerValue(component.group)]

\* Read on the state prior = <<st>>, the call returning out.
ReadHandler(prior, out) ==
    IF out.err # Nil
    THEN [state |-> prior,
          calls |-> <<ReadCall(prior[1])>>,
          diags |-> <<ErrorDiag("Error Reading Instatus Component", <<"Could not read Instatus component ID ", ValueString(prior[1].id), ": ", out.err[1]>>)>>]
    ELSE [state |-> <<ReadState(prior[1], out.component[1])>>,
          calls |-> <<ReadCall(prior[1])>>,
          diags |-> <<>>]

\* The request body Update builds from the plan.
UpdateItem(plan) ==
    [name |-> ValueStringPointer(plan.name),
     description |-> ValueStringPointer(plan.description),
     status |-> ValueStringPointer(plan.status),
     order |-> ValueInt64Pointer(plan.order),
     show_uptime |-> ValueBoolPointer(plan.show_uptime),
     grouped |-> ValueBoolPointer(plan.grouped),
     group |-> ValueStringPointer(plan.group)]

\* The call Update makes.
UpdateCall(plan) == [fn |-> "UpdateComponent", args |-> <<ValueString(plan.page_id), ValueString(plan.id)>>, item |-> <<UpdateItem(plan)>>]

\* UpdateState with every field of the returned component copied into the
\* state, the configured attributes included.
UpdateStateCopiesAll(plan, component, t) ==
    [plan EXCEPT
        !.id = StringPointerValue(component.id),
        !.name = StringPointerValue(component.name),
        !.description = StringPointerValue(component.description),
        !.status = StringPointerValue(component.status),
        !.show_uptime = BoolPointerValue(component.show_uptime),
        !.grouped = BoolValue(component.group # Nil),
        !.group_id = StringPointerValue(component.group_id),
        !.group = StringPointerValue(component.group),
        !.order = Int64PointerValue(component.order),
        !.unique_email = StringPointerValue(component.unique_email),
        !.last_updated = StringValue(Format(t))]

\* The state Update writes once the service has returned component.
UpdateState(plan, component, t) ==
    [plan EXCEPT
        !.id = StringPointerValue(component.id),
        !.group_id = StringPointerValue(component.group_id),
        !.group = StringPointerValue(component.group),
        !.order = Int64PointerValue(component.order),
        !.unique_email = StringPointerValue(component.unique_email),
        !.last_updated = StringValue(Format(t))]

\* The warning Update adds on success.
GroupWarning(component) ==
    WarningDiag(<<"Group name : ", ValueString(StringPointerValue(component.group))>>,
                <<ValueString(StringPointerValue(component.group))>>)

\* UpdateHandler calling the service a second time when the first call failed.
UpdateHandlerRetries(prior, plan, out, t) ==
    IF out.err # Nil
    THEN [state |-> prior,
          calls |-> <<UpdateCall(plan), UpdateCall(plan)>>,
          diags |-> <<ErrorDiag("Error Updating Instatus Component", <<"Could not update component, unexpected error: ", out.err[1]>>)>>]
    ELSE [state |-> <<UpdateState(plan, out.component[1], t)>>,
          calls |-> <<UpdateCall(plan)>>,
          diags |-> <<GroupWarning(out.component[1])>>]

\* Update on plan, the call returning out at time t; prior is the state before.
UpdateHandler(prior, plan, out, t) ==
    IF out.err # Nil
    THEN [state |-> prior,
          calls |-> <<UpdateCall(plan)>>,
          diags |-> <<ErrorDiag("Error Updating Instatus Component", <<"Could not update component, unexpected error: ", out.err[1]>>)>>]
    ELSE [state |-> <<UpdateState(plan, out.component[1], t)>>,
          calls |-> <<UpdateCall(plan)>>,
          diags |-> <<GroupWarning(out.component[1])>>]

\* The call Delete makes.
DeleteCall(st) == [fn |-> "DeleteComponent", args |-> <<ValueString(st.page_id), ValueString(st.id)>>, item |-> Nil]

\* DeleteHandler with the state removed whether or not the call failed.
DeleteHandlerAlwaysRemoves(prior, out) ==
    [state |-> NoState,
     calls |-> <<DeleteCall(prior[1])>>,
     diags |-> IF out.err # Nil
               THEN <<ErrorDiag("Error Deleting Instatus Component", <<"Could not delete component, unexpected error: ", out.err[1]>>)>>
               ELSE <<>>]

\* Delete on the state prior = <<st>>, the call returning out.  The handler
\* never touches the state: the framework removes it when no error was added.
DeleteHandler(prior, out) ==
    LET diags == IF out.err # Nil
                 THEN <<ErrorDiag("Error Deleting Instatus Component", <<"Could not delete component, unexpected error: ", out.err[1]>>)>>
                 ELSE <<>>
    IN [state |-> IF HasError(diags) THEN prior ELSE NoState,
        calls |-> <<DeleteCall(prior[1])>>,
        diags |-> diags]

\* ImportedState with the identifier written to page_id as well.
ImportedStateWithPage(id) == [a \in Attributes |-> IF a \in {"id", "page_id"} THEN StringValue(id) ELSE Null]

\* resource.ImportStatePassthroughID(ctx, path.Root("id"), req, resp).
ImportedState(id) == [a \in Attributes |-> IF a = "id" THEN StringValue(id) ELSE Null]

(* ------------------------------- actions ------------------------------- *)

\* The page and component identifiers a state addresses the component by.
Addressed(st) == IF st = NoState THEN Nil ELSE <<[page_id |-> st[1].page_id, id |-> st[1].id]>>

\* What is kept of a handler's invocation: the identifiers the state held
\* when it began, the calls it made (function and addressing arguments), the
\* client's error or component, the diagnostics, and, for a Create or Update
\* that succeeded, the plan, the request body and the time.
Invocation(op, plan, item, out, res) ==
    [op |-> op,
     addressed |-> Addressed(state),
     at |-> IF out.err = Nil /\ plan # Nil THEN <<now>> ELSE Nil,
     plan |-> IF out.err = Nil THEN plan ELSE Nil,
     item |-> IF out.err = Nil THEN item ELSE Nil,
     calls |-> [i \in 1..Len(res.calls) |-> [fn |-> res.calls[i].fn, args |-> res.calls[i].args]],
     err |-> out.err,
     component |-> out.component,
     diags |-> res.diags]

NoInvocation(op) ==
    [op |-> op, addressed |-> Nil, at |-> Nil, plan |-> Nil, item |-> Nil,
     calls |-> <<>>, err |-> Nil, component |-> Nil, diags |-> <<>>]

\* What the last successful Create or Update sent, got and wrote.
Written(item, out, res) == <<[item |-> item, component |-> out.component[1], state |-> res.state[1]]>>

Init ==
    /\ state = NoState
    /\ remote \in {Nil, <<Existing>>}
    /\ now = 0
    /\ written = Nil
    /\ last = NoInvocation("none")

Create ==
    /\ state = NoState
    /\ \E cfg \in Configs :
        LET plan == PlanOf(cfg, UseStateForUnknown(Null)) IN
        \E out \in CreateOutcomes(CreateItem(plan)) :
            LET res == CreateHandler(state, plan, out, now) IN
            /\ state' = res.state
            /\ last' = Invocation("Create", <<plan>>, <<CreateItem(plan)>>, out, res)
            /\ remote' = (IF out.err = Nil THEN out.component ELSE remote)
            /\ written' = (IF out.err = Nil THEN Written(CreateItem(plan), out, res) ELSE written)
            /\ UNCHANGED now

Read ==
    /\ state # NoState
    /\ \E out \in GetOutcomes(remote, ValueString(state[1].id)) :
        LET res == ReadHandler(state, out) IN
        /\ state' = res.state
        /\ last' = Invocation("Read", Nil, Nil, out, res)
        /\ UNCHANGED <<remote, now, written>>

Update ==
    /\ state # NoState
    /\ \E cfg \in Configs :
        LET plan == PlanOf(cfg, UseStateForUnknown(state[1].id)) IN
        \E out \in UpdateOutcomes(remote, UpdateItem(plan), ValueString(plan.id)) :
            LET res == UpdateHandler(state, plan, out, now) IN
            /\ state' = res.state
            /\ last' = Invocation("Update", <<plan>>, <<UpdateItem(plan)>>, out, res)
            /\ remote' = (IF out.err = Nil THEN out.component ELSE remote)
            /\ written' = (IF out.err = Nil THEN Written(UpdateItem(plan), out, res) ELSE written)
            /\ UNCHANGED now

Delete ==
    /\ state # NoState
    /\ \E out \in DeleteOutcomes(remote, ValueString(state[1].id)) :
        LET res == DeleteHandler(state, out) IN
        /\ state' = res.state
        /\ last' = Invocation("Delete", Nil, Nil, out, res)
        /\ remote' = (IF out.err = Nil THEN Nil ELSE remote)
        /\ written' = (IF out.err = Nil THEN Nil ELSE written)
        /\ UNCHANGED now

ImportState ==
    /\ state = NoState
    /\ \E id \in ServiceIds :
        /\ state' = <<ImportedState(id)>>
        /\ last' = NoInvocation("ImportState")
        /\ written' = Nil
        /\ UNCHANGED <<remote, now>>

\* A second passes.
Tick ==
    /\ now < MaxClock
    /\ now' = now + 1
    /\ UNCHANGED <<state, remote, last, written>>

Next == Create \/ Read \/ Update \/ Delete \/ ImportState \/ Tick

Spec == Init /\ [][Next]_vars

(* --------------------------- reading the record ------------------------ *)

\* The last invocation was op and its remote call succeeded.
Succeeded(op) == last.op = op /\ last.err = Nil

WriteSucceeded == Succeeded("Create") \/ Succeeded("Update")

\* The last invocation's remote call failed.
Failed == last.err # Nil

\* This step is an invocation of op.
Invokes(op) == last' # last /\ last'.op = op

\* The attributes of the state when there is one.
St == state[1]

\* The component the last call returned.
Returned == last.component[1]

\* The plan of the last Create or Update.
Planned == last.plan[1]

\* The request body of the last Create or Update.
Sent == last.item[1]

\* Whether a component as returned is in a group (Read's reading of it).
ReturnedGrouped(component) == BoolValue(component.group # Nil)

\* A status the schema's validator accepts, or none.
StatusInEnum(t) == IsNull(t) \/ (t[1] = "known" /\ t[2] \in componentStatuses)

\* The service stored the request as it was: every field of the request comes back unchanged.
IsEcho(item, component) == /\ component.name = item.name /\ component.description = item.description /\ component.status = item.status /\ component.order = item.order /\ component.show_uptime = item.show_uptime /\ component.group = item.group

(* ------------------------------- claims -------------------------------- *)

\* The attributes claim C1 lists.
RoundTripAttributes == {"name", "description", "status", "order", "show_uptime", "grouped", "group", "group_id", "unique_email", "id", "page_id"}

\* A Read that follows a successful Create or Update, on a service that stored the
\* request unchanged and returns what it stored.
ReadAfterEchoedWrite == /\ Succeeded("Read") /\ written # Nil /\ IsEcho(written[1].item, written[1].component) /\ Returned = written[1].component

\* C1: against a service that stores the request and returns it unchanged, a
\* Read after a successful Create or Update leaves every attribute of the
\* state equal to the value it had right after that Create or Update.
C1_RoundTrip == ReadAfterEchoedWrite => \A a \in RoundTripAttributes : St[a] = written[1].state[a]

\* C2 as claimed: on every successful Create and Update each field of the
\* returned component (id, unique_email, name, description, status, order,
\* group_id, show_uptime, grouped, group name) is the state's value of that
\* attribute, and last_updated is stamped.
C2_EveryFieldCopied == WriteSucceeded => /\ St.id = StringPointerValue(Returned.id) /\ St.unique_email = StringPointerValue(Returned.unique_email) /\ St.name = StringPointerValue(Returned.name) /\ St.description = StringPointerValue(Returned.description) /\ St.status = StringPointerValue(Returned.status) /\ St.order = Int64PointerValue(Returned.order) /\ St.group_id = StringPointerValue(Returned.group_id) /\ St.show_uptime = BoolPointerValue(Returned.show_uptime) /\ St.grouped = ReturnedGrouped(Returned) /\ St.group = StringPointerValue(Returned.group) /\ St.last_updated = StringValue(Format(last.at[1]))

\* C2 amended: on every successful Create and Update the state written holds
\* the returned id, unique_email, order, group_id and group name; name,
\* description, status, show_uptime, grouped and page_id keep the plan's
\* values; last_updated is the time of the operation, formatted.
C2_ComputedCopiedPlanKept == WriteSucceeded => /\ St.id = StringPointerValue(Returned.id) /\ St.unique_email = StringPointerValue(Returned.unique_email) /\ St.order = Int64PointerValue(Returned.order) /\ St.group_id = StringPointerValue(Returned.group_id) /\ St.group = StringPointerValue(Returned.group) /\ St.name = Planned.name /\ St.description = Planned.description /\ St.status = Planned.status /\ St.show_uptime = Planned.show_uptime /\ St.grouped = Planned.grouped /\ St.page_id = Planned.page_id /\ St.last_updated = StringValue(Format(last.at[1]))

\* An Update succeeded although the service returned another name, another
\* status and so on than the plan's.
C2_Witness == /\ Succeeded("Update") /\ StringPointerValue(Returned.name) # Planned.name /\ St.name = Planned.name /\ St.last_updated = StringValue(Format(MaxClock))

\* C3 as claimed: whatever the service returns, the status held in state is
\* unset or one of the five statuses.
C3_StatusAlwaysInEnum == state # NoState => StatusInEnum(St.status)

\* C3 amended: after a successful Create or Update the status in state is the
\* plan's, unset or one of the five statuses, whatever status the service
\* returned; after a successful Read it is the status the service returned,
\* unset when it returned none, and is not validated.
C3_StatusFromPlanOrService ==
    /\ WriteSucceeded => (St.status = Planned.status /\ StatusInEnum(St.status))
    /\ Succeeded("Read") => St.status = StringPointerValue(Returned.status)

\* A Read has put a status outside the enum into the state.
C3_Witness == Succeeded("Read") /\ Returned.status = <<"RETIRED">> /\ St.status = StringValue("RETIRED")

\* C4: after every successful Create, Read or Update the state's grouped flag
\* and group are the ones of the service's response (a returned component is
\* grouped when it carries a group name), so the state never holds grouped =
\* false together with a group name.
C4_GroupedGroupVerbatim == (WriteSucceeded \/ Succeeded("Read")) => /\ St.grouped = ReturnedGrouped(Returned) /\ St.group = StringPointerValue(Returned.group) /\ ~(St.grouped = BoolValue(FALSE) /\ St.group[1] = "known")

\* C6: the request body of Create and Update carries exactly the plan's name,
\* description, status, order, show_uptime, grouped and group, each equal to
\* the plan value, and no id or unique_email; the id and unique_email in
\* state are the ones the service returned.
C6_RequestCarriesPlan == WriteSucceeded => /\ DOMAIN Sent = {"name", "description", "status", "order", "show_uptime", "grouped", "group"} /\ StringPointerValue(Sent.name) = Planned.name /\ StringPointerValue(Sent.description) = Planned.description /\ StringPointerValue(Sent.status) = Planned.status /\ Int64PointerValue(Sent.order) = Planned.order /\ BoolPointerValue(Sent.show_uptime) = Planned.show_uptime /\ BoolPointerValue(Sent.grouped) = Planned.grouped /\ StringPointerValue(Sent.group) = Planned.group /\ St.id = StringPointerValue(Returned.id) /\ St.unique_email = StringPointerValue(Returned.unique_email)

\* The diagnostics are one error whose detail ends with the client's message.
CarriesError(diags, err) ==
    /\ Len(diags) = 1
    /\ diags[1].severity = "error"
    /\ diags[1].detail[Len(diags[1].detail)] = err[1]

\* C5: a handler makes at most one remote call; when the call fails the
\* handler adds one error diagnostic carrying the client's message and leaves
\* the state exactly as it was.
C5_FailureIsTerminal ==
    [][last' # last =>
        /\ Len(last'.calls) <= 1
        /\ last'.err # Nil =>
            /\ Len(last'.calls) = 1
            /\ CarriesError(last'.diags, last'.err)
            /\ state' = state]_vars

\* An Update failed on a state that exists.
C5_Witness == last.op = "Update" /\ Failed /\ state # NoState /\ HasError(last.diags)

\* C7: Delete makes one DeleteComponent call addressed with the page_id and
\* id held in state; when it succeeds there is no error diagnostic and the
\* state is removed, when it fails there is an error diagnostic and the state
\* is kept, so that Delete can run again on the same pair.
C7_DeleteOnSuccessOnly ==
    [][Invokes("Delete") =>
        /\ state # NoState
        /\ last'.calls = <<[fn |-> "DeleteComponent", args |-> <<ValueString(state[1].page_id), ValueString(state[1].id)>>]>>
        /\ last'.err = Nil => (~HasError(last'.diags) /\ state' = NoState)
        /\ last'.err # Nil => (HasError(last'.diags) /\ state' = state)]_vars

\* A Delete failed and the state it addressed is still there.
C7_Witness == last.op = "Delete" /\ Failed /\ Addressed(state) = last.addressed /\ state # NoState

\* C8: a successful Read calls GetComponent with the page_id and id of the
\* state, overwrites unique_email, name, description, status, order,
\* group_id, show_uptime, grouped and group from the fetched component and
\* leaves id, page_id and last_updated as they were; last_updated of an
\* existing state changes only in a successful Create or Update.
C8_ReadRefreshes ==
    [][/\ (Invokes("Read") /\ last'.err = Nil) =>
            /\ last'.calls = <<[fn |-> "GetComponent", args |-> <<ValueString(state[1].page_id), ValueString(state[1].id)>>]>>
            /\ state'[1].unique_email = StringPointerValue(last'.component[1].unique_email)
            /\ state'[1].name = StringPointerValue(last'.component[1].name)
            /\ state'[1].description = StringPointerValue(last'.component[1].description)
            /\ state'[1].status = StringPointerValue(last'.component[1].status)
            /\ state'[1].order = Int64PointerValue(last'.component[1].order)
            /\ state'[1].group_id = StringPointerValue(last'.component[1].group_id)
            /\ state'[1].show_uptime = BoolPointerValue(last'.component[1].show_uptime)
            /\ state'[1].grouped = ReturnedGrouped(last'.component[1])
            /\ state'[1].group = StringPointerValue(last'.component[1].group)
            /\ state'[1].id = state[1].id
            /\ state'[1].page_id = state[1].page_id
            /\ state'[1].last_updated = state[1].last_updated
       /\ (state # NoState /\ state' # NoState /\ state'[1].last_updated # state[1].last_updated) =>
            /\ last'.op \in {"Create", "Update"}
            /\ last'.err = Nil]_vars

\* A Read has overwritten the name with the one the service returned, on a
\* state that was stamped by a Create or Update.
C8_Witness == Succeeded("Read") /\ St.name = StringValue("renamed") /\ St.last_updated[1] = "known"

\* The state ImportState writes for id: the id and nothing else.
OnlyId(st) == \A a \in Attributes : st[a] = (IF a = "id" THEN st.id ELSE Null)

\* C9: ImportState writes the import identifier into id and sets nothing
\* else; the Read after an import calls GetComponent with an empty page
\* identifier and the imported id, and page_id is still unset after it.
C9_ImportByIdOnly ==
    [][/\ last'.op = "ImportState" => (OnlyId(state'[1]) /\ state'[1].id[1] = "known")
       /\ (last.op = "ImportState" /\ Invokes("Read")) =>
            /\ last'.calls = <<[fn |-> "GetComponent", args |-> <<"", ValueString(state[1].id)>>]>>
            /\ IsNull(state'[1].page_id)
            /\ state'[1].id = state[1].id]_vars

\* A Read after an import succeeded and the state has no page_id.
C9_Witness == Succeeded("Read") /\ last.calls[1].args = <<"", "c1">> /\ IsNull(St.page_id) /\ St.name[1] = "known"

\* C10: Update calls UpdateComponent with the plan's page_id and the id of
\* the prior state, which the plan carries; a changed page_id is updated in
\* place, and after a successful Update the id in state is the id the service
\* returned and page_id the plan's.
C10_UpdateAddressesByPlan ==
    [][Invokes("Update") =>
        /\ state # NoState
        /\ Len(last'.calls) = 1
        /\ last'.calls[1].fn = "UpdateComponent"
        /\ last'.calls[1].args[2] = ValueString(state[1].id)
        /\ last'.err = Nil =>
            /\ last'.plan[1].id = state[1].id
            /\ last'.calls[1].args[1] = ValueString(last'.plan[1].page_id)
            /\ state'[1].id = StringPointerValue(last'.component[1].id)
            /\ state'[1].page_id = last'.plan[1].page_id]_vars

\* An Update moved the component from page p1 to page p2 under its old id,
\* and the service returned another id.
C10_Witness ==
    /\ Succeeded("Update")
    /\ last.addressed[1].page_id = StringValue("p1")
    /\ last.calls[1].args = <<"p2", ValueString(last.addressed[1].id)>>
    /\ St.page_id = StringValue("p2")
    /\ St.id # last.addressed[1].id

====
